---- MODULE Spec2Model ----
(***************************************************************************)
(* Model of carga_datos/load_data.py: the data-seeding script that loads   *)
(* categories.json and products.json into the database through one         *)
(* SQLAlchemy session (load_categories, load_products, main).              *)
(*                                                                         *)
(* The database is a pair of committed tables (cats, prods).  The session  *)
(* holds the rows flushed inside the open transaction (txCats, txProds)    *)
(* and the objects staged with add() but not flushed yet (sessNew).        *)
(* The session factory (config.database.SessionLocal) is not part of the   *)
(* loader; whether it autoflushes before a query is a configuration        *)
(* choice, fixed per deployment, so it is chosen in Init.                  *)
(*                                                                         *)
(* The input files are well-formed JSON arrays of objects.  A key that is  *)
(* absent from an object is stored as None, which is what dict.get gives.  *)
(* Exceptions come from the database operations (query, flush, commit).    *)
(***************************************************************************)
EXTENDS Integers, Sequences, FiniteSets, TLC

\* ---------------------------------------------------------------- bounds
MaxCatRecs == 2
MaxProdRecs == 2

\* ------------------------------------------------------------ value space
None == "<None>"
NoneNum == -1

CatRecords ==
    { [name |-> "Books"], [name |-> "Toys"], [name |-> ""], [name |-> None] }

ProdRecords ==
    { [name |-> "Dune", price |-> 1, stock |-> 0, category |-> "Books"],
      [name |-> "Dune", price |-> 2, stock |-> 5, category |-> "Toys"],
      [name |-> "Lego", price |-> 1, stock |-> 0, category |-> "Games"],
      [name |-> "Lego", price |-> NoneNum, stock |-> NoneNum, category |-> None] }

SeqsUpTo(S, n) == UNION { [1..k -> S] : k \in 0..n }

NoFile == [exists |-> FALSE, data |-> << >>]
CategoryFiles == {NoFile} \cup { [exists |-> TRUE, data |-> d] : d \in SeqsUpTo(CatRecords, MaxCatRecs) }
ProductFiles == {NoFile} \cup { [exists |-> TRUE, data |-> d] : d \in SeqsUpTo(ProdRecords, MaxProdRecs) }

\* Databases the script may be started on: category names are unique and
\* every product references a stored category.
InitialDatabases ==
    { [cats |-> {}, prods |-> {}],
      [cats |-> { [id |-> 1, name |-> "Books"] },
       prods |-> { [id |-> 1, name |-> "Dune", price |-> 9, stock |-> 9, category_id |-> 1] }],
      [cats |-> { [id |-> 1, name |-> "Games"], [id |-> 2, name |-> "Toys"] },
       prods |-> { [id |-> 1, name |-> "Lego", price |-> 9, stock |-> 9, category_id |-> 1] }] }

\* ------------------------------------------------------------------ state
VARIABLES
    cats, prods,            \* committed tables
    txCats, txProds,        \* rows flushed in the open transaction
    sessNew,                \* objects added to the session, not flushed
    txActive,               \* the transaction has touched the database
    sessOpen, autoflush,    \* session handle, session factory setting
    CATEGORIES_FILE, PRODUCTS_FILE,
    pc, i,
    category_map,
    catNew, catExisting, prodNew, skipped_count,
    exc, rolledBack, closeCount, productsInvoked,
    cats0, prods0, prevOk   \* tables at the start of the run; previous run clean

vars == << cats, prods, txCats, txProds, sessNew, txActive, sessOpen, autoflush,
           CATEGORIES_FILE, PRODUCTS_FILE, pc, i, category_map,
           catNew, catExisting, prodNew, skipped_count,
           exc, rolledBack, closeCount, productsInvoked, cats0, prods0, prevOk >>

dbVars == << cats, prods, txCats, txProds, sessNew, txActive >>
cfgVars == << autoflush, CATEGORIES_FILE, PRODUCTS_FILE, cats0, prods0, prevOk >>
countVars == << catNew, catExisting, prodNew, skipped_count >>

\* ------------------------------------------------------- session / tables
EmptyMap == [n \in {} |-> 0]

MaxOf(S) == CHOOSE x \in S : \A y \in S : y <= x

NextId(rows) == IF rows = {} THEN 1 ELSE MaxOf({ r.id : r \in rows }) + 1

QueryByName(rows, name) == { r \in rows : r.name = name }

Get(d, key) == d[key]

\* rows the category query reads: committed rows and the rows flushed by
\* db.flush() in this transaction
VisibleCategoriesUnflushed(committed, flushed) == committed
VisibleCategories(committed, flushed) == committed \cup flushed

\* db.query(CategoryModel).filter(CategoryModel.name == name)
FindCategoryNever(rows, name) == {}
FindCategory(rows, name) == QueryByName(rows, name)

\* category.id, read after the flush
CategoryIdUnflushed(category) == NoneNum
CategoryId(category) == category.id

\* prod_data.get("category")
CategoryOfDefault(prod_data) ==
    IF prod_data.category = None THEN "Books" ELSE prod_data.category
CategoryOf(prod_data) == Get(prod_data, "category")

\* db.query(ProductModel).filter(ProductModel.name == product_name)
FindProductNever(rows, product_name) == {}
FindProduct(rows, product_name) == QueryByName(rows, product_name)

\* ProductModel(name=..., price=..., stock=..., category_id=category_map[category_name])
NewProductLastCategory(prod_data, cmap) ==
    [name |-> Get(prod_data, "name"),
     price |-> Get(prod_data, "price"),
     stock |-> Get(prod_data, "stock"),
     category_id |-> CHOOSE x \in { cmap[n] : n \in DOMAIN cmap } :
                        \A y \in { cmap[n] : n \in DOMAIN cmap } : y <= x]
NewProduct(prod_data, cmap) ==
    [name |-> Get(prod_data, "name"),
     price |-> Get(prod_data, "price"),
     stock |-> Get(prod_data, "stock"),
     category_id |-> cmap[CategoryOf(prod_data)]]

\* main: if category_map:
RunProductsAlways(cmap) == TRUE
RunProducts(cmap) == cmap # EmptyMap

Falsy(v) == v = None \/ v = ""

RECURSIVE FlushProducts(_, _)
FlushProducts(pending, rows) ==
    IF pending = << >> THEN rows
    ELSE FlushProducts(Tail(pending),
                       rows \cup { [id |-> NextId(rows),
                                    name |-> Head(pending).name,
                                    price |-> Head(pending).price,
                                    stock |-> Head(pending).stock,
                                    category_id |-> Head(pending).category_id] })

MapPut(m, k, v) == [n \in DOMAIN m \cup {k} |-> IF n = k THEN v ELSE m[n]]

Raise ==
    /\ exc' = TRUE
    /\ pc' = "except"

\* ---------------------------------------------------------------- actions
Init ==
    /\ \E db \in InitialDatabases :
          /\ cats = db.cats /\ prods = db.prods
          /\ cats0 = db.cats /\ prods0 = db.prods
    /\ txCats = {} /\ txProds = {} /\ sessNew = << >> /\ txActive = FALSE
    /\ sessOpen = FALSE
    /\ autoflush \in BOOLEAN
    /\ CATEGORIES_FILE \in CategoryFiles
    /\ PRODUCTS_FILE \in ProductFiles
    /\ pc = "start" /\ i = 0
    /\ category_map = EmptyMap
    /\ catNew = 0 /\ catExisting = 0 /\ prodNew = 0 /\ skipped_count = 0
    /\ exc = FALSE /\ rolledBack = FALSE /\ closeCount = 0
    /\ productsInvoked = FALSE
    /\ prevOk = FALSE

\* main: check_connection(); sys.exit(1) when it fails
CheckConnection ==
    /\ pc = "start"
    /\ \E ok \in BOOLEAN : pc' = IF ok THEN "connected" ELSE "aborted"
    /\ UNCHANGED << dbVars, cfgVars, countVars, sessOpen, i, category_map,
                    exc, rolledBack, closeCount, productsInvoked >>

\* main: db = SessionLocal()
OpenSession ==
    /\ pc = "connected"
    /\ sessOpen' = TRUE
    /\ pc' = "load_categories"
    /\ UNCHANGED << dbVars, cfgVars, countVars, i, category_map,
                    exc, rolledBack, closeCount, productsInvoked >>

\* load_categories: file test, json.load, counters
LoadCategoriesOpen ==
    /\ pc = "load_categories"
    /\ IF ~CATEGORIES_FILE.exists
          THEN /\ pc' = "cats_loaded"
               /\ i' = i
          ELSE /\ pc' = "cat_loop"
               /\ i' = 1
    /\ category_map' = EmptyMap
    /\ catNew' = 0 /\ catExisting' = 0
    /\ UNCHANGED << dbVars, cfgVars, prodNew, skipped_count, sessOpen,
                    exc, rolledBack, closeCount, productsInvoked >>

\* load_categories: one iteration of the for loop
CatIter ==
    /\ pc = "cat_loop"
    /\ i <= Len(CATEGORIES_FILE.data)
    /\ LET cat_data == CATEGORIES_FILE.data[i]
           name == Get(cat_data, "name")
           visible == VisibleCategories(cats, txCats)
           found == FindCategory(visible, name)
           created == [id |-> NextId(cats \cup txCats), name |-> name]
       IN IF Falsy(name)
             THEN /\ i' = i + 1
                  /\ UNCHANGED << pc, exc, txCats, txActive, category_map, catNew, catExisting >>
             ELSE \/ /\ Raise
                     /\ txActive' = TRUE
                     /\ category_map' = EmptyMap   \* the local is lost with the frame
                     /\ UNCHANGED << i, txCats, catNew, catExisting >>
                  \/ /\ found = {}
                     /\ txCats' = txCats \cup {created}
                     /\ category_map' = MapPut(category_map, name, CategoryId(created))
                     /\ catNew' = catNew + 1
                     /\ txActive' = TRUE
                     /\ i' = i + 1
                     /\ UNCHANGED << pc, exc, catExisting >>
                  \/ /\ \E category \in found :
                           category_map' = MapPut(category_map, name, CategoryId(category))
                     /\ catExisting' = catExisting + 1
                     /\ txActive' = TRUE
                     /\ i' = i + 1
                     /\ UNCHANGED << pc, exc, txCats, catNew >>
    /\ UNCHANGED << cats, prods, txProds, sessNew, cfgVars, prodNew, skipped_count,
                    sessOpen, rolledBack, closeCount, productsInvoked >>

\* load_categories: db.commit() and return category_map
CatCommit ==
    /\ pc = "cat_loop"
    /\ i > Len(CATEGORIES_FILE.data)
    /\ \/ /\ txActive
          /\ Raise
          /\ category_map' = EmptyMap   \* the local is lost with the frame
          /\ UNCHANGED << cats, txCats, txActive >>
       \/ /\ cats' = cats \cup txCats
          /\ txCats' = {}
          /\ txActive' = FALSE
          /\ pc' = "cats_loaded"
          /\ UNCHANGED << exc, category_map >>
    /\ UNCHANGED << prods, txProds, sessNew, cfgVars, countVars, sessOpen, i,
                    rolledBack, closeCount, productsInvoked >>

\* main: if category_map: load_products(...) else: warning
MainBranch ==
    /\ pc = "cats_loaded"
    /\ IF RunProducts(category_map)
          THEN /\ pc' = "load_products"
               /\ productsInvoked' = TRUE
          ELSE /\ pc' = "skipped_products"
               /\ productsInvoked' = productsInvoked
    /\ UNCHANGED << dbVars, cfgVars, countVars, sessOpen, i, category_map,
                    exc, rolledBack, closeCount >>

\* load_products: file test, json.load, counters
LoadProductsOpen ==
    /\ pc = "load_products"
    /\ IF ~PRODUCTS_FILE.exists
          THEN /\ pc' = "products_loaded"
               /\ i' = i
          ELSE /\ pc' = "prod_loop"
               /\ i' = 1
    /\ prodNew' = 0 /\ skipped_count' = 0
    /\ UNCHANGED << dbVars, cfgVars, catNew, catExisting, sessOpen, category_map,
                    exc, rolledBack, closeCount, productsInvoked >>

\* load_products: one iteration of the for loop
ProdIter ==
    /\ pc = "prod_loop"
    /\ i <= Len(PRODUCTS_FILE.data)
    /\ LET prod_data == PRODUCTS_FILE.data[i]
           category_name == CategoryOf(prod_data)
           product_name == Get(prod_data, "name")
           flushed == IF autoflush
                         THEN FlushProducts(sessNew, prods \cup txProds) \ prods
                         ELSE txProds
           pending == IF autoflush THEN << >> ELSE sessNew
           existing_product == FindProduct(prods \cup flushed, product_name)
       IN IF category_name \notin DOMAIN category_map
             THEN /\ skipped_count' = skipped_count + 1
                  /\ i' = i + 1
                  /\ UNCHANGED << pc, exc, txProds, sessNew, txActive, prodNew >>
             ELSE \/ /\ Raise
                     /\ txActive' = TRUE
                     /\ UNCHANGED << i, txProds, sessNew, prodNew, skipped_count >>
                  \/ /\ existing_product # {}
                     /\ txProds' = flushed
                     /\ sessNew' = pending
                     /\ txActive' = TRUE
                     /\ skipped_count' = skipped_count + 1
                     /\ i' = i + 1
                     /\ UNCHANGED << pc, exc, prodNew >>
                  \/ /\ existing_product = {}
                     /\ txProds' = flushed
                     /\ sessNew' = Append(pending, NewProduct(prod_data, category_map))
                     /\ txActive' = TRUE
                     /\ prodNew' = prodNew + 1
                     /\ i' = i + 1
                     /\ UNCHANGED << pc, exc, skipped_count >>
    /\ UNCHANGED << cats, prods, txCats, cfgVars, catNew, catExisting, sessOpen,
                    category_map, rolledBack, closeCount, productsInvoked >>

\* load_products: db.commit()
ProdCommit ==
    /\ pc = "prod_loop"
    /\ i > Len(PRODUCTS_FILE.data)
    /\ \/ /\ txActive
          /\ Raise
          /\ UNCHANGED << prods, txProds, sessNew, txActive >>
       \/ /\ prods' = FlushProducts(sessNew, prods \cup txProds)
          /\ txProds' = {}
          /\ sessNew' = << >>
          /\ txActive' = FALSE
          /\ pc' = "products_loaded"
          /\ exc' = exc
    /\ UNCHANGED << cats, txCats, cfgVars, countVars, sessOpen, i, category_map,
                    rolledBack, closeCount, productsInvoked >>

RollbackCommits ==
    /\ pc = "except"
    /\ cats' = cats \cup txCats
    /\ prods' = FlushProducts(sessNew, prods \cup txProds)
    /\ txCats' = {} /\ txProds' = {} /\ sessNew' = << >> /\ txActive' = FALSE
    /\ rolledBack' = TRUE
    /\ pc' = "rolled_back"
    /\ UNCHANGED << cfgVars, countVars, sessOpen, i, category_map,
                    exc, closeCount, productsInvoked >>

\* main: except Exception: logger.error; db.rollback()
Rollback ==
    /\ pc = "except"
    /\ txCats' = {} /\ txProds' = {} /\ sessNew' = << >> /\ txActive' = FALSE
    /\ rolledBack' = TRUE
    /\ pc' = "rolled_back"
    /\ UNCHANGED << cats, prods, cfgVars, countVars, sessOpen, i, category_map,
                    exc, closeCount, productsInvoked >>

CloseOnSuccessOnly ==
    /\ pc \in {"products_loaded", "skipped_products"}
    /\ txCats' = {} /\ txProds' = {} /\ sessNew' = << >> /\ txActive' = FALSE
    /\ sessOpen' = FALSE
    /\ closeCount' = closeCount + 1
    /\ pc' = "done"
    /\ UNCHANGED << cats, prods, cfgVars, countVars, i, category_map,
                    exc, rolledBack, productsInvoked >>

\* main: finally: db.close(); "Data loading process completed."
Close ==
    /\ pc \in {"products_loaded", "skipped_products", "rolled_back"}
    /\ txCats' = {} /\ txProds' = {} /\ sessNew' = << >> /\ txActive' = FALSE
    /\ sessOpen' = FALSE
    /\ closeCount' = closeCount + 1
    /\ pc' = "done"
    /\ UNCHANGED << cats, prods, cfgVars, countVars, i, category_map,
                    exc, rolledBack, productsInvoked >>

\* the script is started again on the same files
NextRun ==
    /\ pc \in {"done", "aborted"}
    /\ pc' = "start"
    /\ prevOk' = (pc = "done" /\ ~exc)
    /\ cats0' = cats /\ prods0' = prods
    /\ i' = 0
    /\ category_map' = EmptyMap
    /\ catNew' = 0 /\ catExisting' = 0 /\ prodNew' = 0 /\ skipped_count' = 0
    /\ exc' = FALSE /\ rolledBack' = FALSE /\ closeCount' = 0
    /\ productsInvoked' = FALSE
    /\ UNCHANGED << dbVars, sessOpen, autoflush, CATEGORIES_FILE, PRODUCTS_FILE >>

Next ==
    \/ CheckConnection
    \/ OpenSession
    \/ LoadCategoriesOpen
    \/ CatIter
    \/ CatCommit
    \/ MainBranch
    \/ LoadProductsOpen
    \/ ProdIter
    \/ ProdCommit
    \/ Rollback
    \/ Close
    \/ NextRun

Spec == Init /\ [][Next]_vars

\* The script is sequential: every step it can take, it takes.  The runs
\* start on the database that already holds a category and a product.
InitStocked == Init /\ cats # {} /\ "Books" \in { c.name : c \in cats }

FairSpec == InitStocked /\ [][Next]_vars /\ WF_vars(Next)

TypeOK ==
    /\ pc \in {"start", "connected", "aborted", "load_categories", "cat_loop",
               "cats_loaded", "load_products", "skipped_products", "prod_loop",
               "products_loaded", "except", "rolled_back", "done"}
    /\ i \in 0..(MaxCatRecs + MaxProdRecs + 1)

\* ------------------------------------------------------ derived notions
Names(rows) == { r.name : r \in rows }

UniqueNames(rows) == \A r1, r2 \in rows : r1.name = r2.name => r1 = r2

NamedCategories ==
    { CATEGORIES_FILE.data[k].name : k \in 1..Len(CATEGORIES_FILE.data) } \ {None, ""}

NamedRecordCount ==
    Cardinality({ k \in 1..Len(CATEGORIES_FILE.data) :
                    ~Falsy(CATEGORIES_FILE.data[k].name) })

\* the orchestrator state of the design's state machine at each code position
State ==
    CASE pc = "start" -> "START"
      [] pc = "aborted" -> "ABORTED"
      [] pc \in {"connected", "load_categories", "cat_loop"} -> "CONNECTED"
      [] pc \in {"cats_loaded", "load_products", "prod_loop", "skipped_products"}
            -> "CATEGORIES_LOADED"
      [] pc = "products_loaded" -> "PRODUCTS_LOADED"
      [] pc = "except" -> "FAILING"
      [] pc = "rolled_back" -> "ROLLED_BACK"
      [] pc = "done" -> "DONE"

\* ---------------------------------------------------------------- claims

\* C1: a run that follows a clean run on the same files leaves the Category
\* and Product tables as the first run left them; it creates no category
\* (every named record counts as existing) and inserts no product (every
\* record counts as skipped).
C1_Idempotence ==
    (pc = "done" /\ prevOk /\ ~exc) =>
        /\ cats = cats0
        /\ prods = prods0
        /\ catNew = 0
        /\ prodNew = 0
        /\ CATEGORIES_FILE.exists => catExisting = NamedRecordCount
        /\ (productsInvoked /\ PRODUCTS_FILE.exists) =>
               skipped_count = Len(PRODUCTS_FILE.data)

C1_Witness ==
    /\ pc = "done" /\ prevOk /\ ~exc
    /\ catExisting > 0
    /\ productsInvoked /\ skipped_count > 0
    /\ \E p \in prods : p.price = 1

\* C2: in every committed database state, during or after a run (a rolled
\* back run included), every Product row's category_id is the id of a
\* committed Category row.
C2_ReferentialIntegrity ==
    \A p \in prods : \E c \in cats : c.id = p.category_id

C2_Witness ==
    /\ pc = "products_loaded"
    /\ prods # prods0
    /\ cats # cats0

\* C3: a Product stored before the run whose name occurs in the input is
\* kept unchanged in every field, and no other row with its name is staged,
\* flushed or committed.
C3_NonUpdate ==
    /\ prods0 \subseteq prods
    /\ \A q \in prods \cup txProds : q.name \in Names(prods0) => q \in prods0
    /\ \A k \in 1..Len(sessNew) : sessNew[k].name \notin Names(prods0)

C3_Witness ==
    /\ pc = "done" /\ ~exc /\ productsInvoked
    /\ \E k \in 1..Len(PRODUCTS_FILE.data) : \E p \in prods0 :
          /\ PRODUCTS_FILE.data[k].name = p.name
          /\ PRODUCTS_FILE.data[k].price # p.price
          /\ PRODUCTS_FILE.data[k].category \in DOMAIN category_map

\* C4: a product record whose category is not a key of the category map
\* (absent field included) is not inserted, adds exactly one to the skipped
\* counter, and raises nothing.
C4_SkipStep ==
    ( /\ pc = "prod_loop"
      /\ i <= Len(PRODUCTS_FILE.data)
      /\ PRODUCTS_FILE.data[i].category \notin DOMAIN category_map )
    => ( /\ skipped_count' = skipped_count + 1
         /\ prodNew' = prodNew
         /\ sessNew' = sessNew /\ txProds' = txProds /\ prods' = prods
         /\ exc' = exc
         /\ pc' = "prod_loop" /\ i' = i + 1 )

C4_MissingCategorySkip == [][C4_SkipStep]_vars

C4_Witness ==
    /\ pc = "prod_loop" /\ i = 2
    /\ PRODUCTS_FILE.data[1].category \notin DOMAIN category_map
    /\ \E c \in cats : c.name = PRODUCTS_FILE.data[1].category
    /\ skipped_count = 1 /\ prodNew = 0

\* C5: load_products is invoked exactly when load_categories returned a
\* non-empty mapping; with the categories file absent or without a named
\* record the mapping is empty, nothing raises, load_products is not invoked
\* and the Product table is unchanged; with only the products file absent
\* load_products returns without raising, inserting or committing.
C5_Gating ==
    /\ productsInvoked => category_map # EmptyMap
    /\ pc = "skipped_products" => category_map = EmptyMap
    /\ (pc = "done" /\ ~exc) => (productsInvoked <=> category_map # EmptyMap)
    /\ (~CATEGORIES_FILE.exists \/ NamedCategories = {}) =>
          /\ category_map = EmptyMap
          /\ ~exc /\ ~productsInvoked
          /\ prods = prods0 /\ txProds = {} /\ sessNew = << >>
    /\ ~PRODUCTS_FILE.exists =>
          /\ pc # "prod_loop"
          /\ productsInvoked => ~exc
          /\ prods = prods0 /\ txProds = {} /\ sessNew = << >>

C5_Witness ==
    /\ pc = "skipped_products"
    /\ CATEGORIES_FILE.exists /\ Len(CATEGORIES_FILE.data) = 2
    /\ PRODUCTS_FILE.exists /\ Len(PRODUCTS_FILE.data) > 0

\* C6: the mapping sends every named category of the input to the id of the
\* stored Category of that name, and every product staged, flushed or
\* committed by the run carries the id of the Category whose name is its
\* record's category.
C6_MapResolves ==
    \A n \in DOMAIN category_map :
        /\ n \in NamedCategories
        /\ \E c \in cats \cup txCats : c.name = n /\ c.id = category_map[n]
        /\ \A c \in cats \cup txCats : c.name = n => c.id = category_map[n]

C6_Resolved(o) ==
    \E k \in 1..Len(PRODUCTS_FILE.data) :
        LET rec == PRODUCTS_FILE.data[k]
        IN /\ k < i
           /\ rec.name = o.name /\ rec.price = o.price /\ rec.stock = o.stock
           /\ \E c \in cats : c.name = rec.category /\ c.id = o.category_id

C6_CategoryResolution ==
    /\ C6_MapResolves
    /\ pc \in {"cats_loaded", "load_products", "prod_loop", "products_loaded",
               "skipped_products"}
          => DOMAIN category_map = NamedCategories
    /\ \A p \in (prods \cup txProds) \ prods0 : C6_Resolved(p)
    /\ \A k \in 1..Len(sessNew) : C6_Resolved(sessNew[k])

C6_Witness ==
    /\ pc = "products_loaded"
    /\ catExisting > 0 /\ catNew > 0
    /\ Cardinality(prods \ prods0) = 2

\* C7: once the session is opened every run reaches DONE with the session
\* closed exactly once; an exception is rolled back before the close and
\* rollback happens only after an exception; the states follow the order
\* START, CONNECTED, CATEGORIES_LOADED, PRODUCTS_LOADED.
C7_Safety ==
    /\ closeCount <= 1
    /\ closeCount = 1 <=> pc = "done"
    /\ pc = "done" => (~sessOpen /\ (exc <=> rolledBack))
    /\ rolledBack => exc
    /\ sessOpen => State \in {"CONNECTED", "CATEGORIES_LOADED", "PRODUCTS_LOADED",
                              "FAILING", "ROLLED_BACK"}

C7_Order ==
    /\ State' = "CONNECTED" => State \in {"START", "CONNECTED"}
    /\ State' = "CATEGORIES_LOADED" => State \in {"CONNECTED", "CATEGORIES_LOADED"}
    /\ State' = "PRODUCTS_LOADED" => State \in {"CATEGORIES_LOADED", "PRODUCTS_LOADED"}
    /\ State' = "FAILING" => State \in {"CONNECTED", "CATEGORIES_LOADED"}
    /\ State' = "ROLLED_BACK" => State = "FAILING"
    /\ State' = "ABORTED" => State = "START"
    /\ State' = "DONE" => State \in {"CATEGORIES_LOADED", "PRODUCTS_LOADED", "ROLLED_BACK"}

C7_Orchestrator ==
    /\ []C7_Safety
    /\ [][C7_Order]_vars
    /\ (pc = "load_categories") ~> (pc = "done")

C7_Witness ==
    /\ pc = "done" /\ closeCount = 1
    /\ exc /\ rolledBack /\ productsInvoked

\* C8: the Product table changes only through the commit that ends
\* load_products; after an exception in load_products and the rollback it is
\* what it was before the run, while the categories committed by
\* load_categories stay.
C8_AllOrNothing ==
    /\ prods # prods0 => (pc \in {"products_loaded", "done"} /\ ~exc)
    /\ (exc /\ productsInvoked /\ pc \in {"rolled_back", "done"}) =>
          /\ prods = prods0
          /\ \A n \in DOMAIN category_map :
                \E c \in cats : c.name = n /\ c.id = category_map[n]

C8_Witness ==
    /\ pc = "rolled_back" /\ exc /\ productsInvoked
    /\ prodNew > 0 /\ catNew > 0
    /\ cats # cats0

\* C9: no two Category rows, committed or flushed, share a name; the rows
\* stored before the run are kept as they were; at most one row is created
\* per distinct name of the input.
C9_CategoryNamesUnique ==
    /\ UniqueNames(cats \cup txCats)
    /\ cats0 \subseteq cats
    /\ catNew <= Cardinality(NamedCategories \ Names(cats0))

C9_Witness ==
    /\ pc = "cats_loaded"
    /\ Len(CATEGORIES_FILE.data) = 2
    /\ CATEGORIES_FILE.data[1].name = CATEGORIES_FILE.data[2].name
    /\ catNew = 1 /\ catExisting = 1

\* C10: no two Product rows share a name, also when the products file lists
\* a name twice in one run.
C10_ProductNamesUnique == UniqueNames(prods)
====
